---- MODULE Spec2Model ----
(***************************************************************************)
(* Model of the registry listing pipeline of list_docker_registry_images.go *)
(* and regman.go: getRepoInfo (the owner loop), the watcher goroutine, and  *)
(* the fetchRepos / fetchTags / fetchDetailOfTag goroutines, sharing one    *)
(* sync.WaitGroup, the unbuffered channel "data" and the channel "done".    *)
(* Both source files carry the same pipeline; line numbers in the comments  *)
(* are those of list_docker_registry_images.go.                             *)
(*                                                                         *)
(* Repository and tag names are 1..MaxTasks: a name is represented by its   *)
(* rank in ascending name order, and a registry holds at most MaxTasks      *)
(* repositories and tags in all (one goroutine each).  Timestamps are       *)
(* naturals; 0 is Go's zero time.Time, the value time.Parse returns with    *)
(* its (ignored) error.                                                     *)
(***************************************************************************)
EXTENDS Integers, Sequences, FiniteSets, TLC

\* ---- bounds of the model ----
MaxTasks == 3
MaxHist == 3
MaxTime == 2

RepoNames == 1..MaxTasks
TagNames == 1..MaxTasks
Images == RepoNames \X TagNames

\* One element of a manifest's "history" list, by what the code can do with
\* its v1Compatibility string: "badjson" does not unmarshal, "badtime"
\* unmarshals but its "created" is no RFC3339Nano time, n is a valid time.
HistoryEntries ==
    {[v1 |-> "badjson", created |-> 0], [v1 |-> "badtime", created |-> 0]}
        \cup {[v1 |-> "ok", created |-> t] : t \in 1..MaxTime}

RECURSIVE SeqsUpTo(_, _)
SeqsUpTo(S, n) ==
    IF n = 0 THEN {<<>>}
    ELSE LET shorter == SeqsUpTo(S, n - 1)
         IN  shorter \cup {Append(s, e) : s \in {x \in shorter : Len(x) = n - 1}, e \in S}

Histories == SeqsUpTo(HistoryEntries, MaxHist)

VARIABLES
    catalog,        \* the registry's answer to /v2/_catalog: a set of repository names
    registry,       \* the registry's answer to /v2/<repo>/tags/list, per repository
    wgCounter,      \* sync.WaitGroup: the counter
    wgWaiters,      \* sync.WaitGroup: goroutines asleep in Wait
    reposPc,        \* position of the fetchRepos goroutine
    reposFailed,    \* fetchRepos took the err != nil return
    tagsPc,         \* position of each fetchTags goroutine, "idle" before its go statement
    tagsFailed,     \* fetchTags goroutines that took the err != nil return
    detailPc,       \* position of each fetchDetailOfTag goroutine
    detailCreated,  \* r["created"] of each fetchDetailOfTag goroutine once computed
    detailFailed,   \* fetchDetailOfTag goroutines that returned without a message
    watcherPc,      \* position of the goroutine of lines 257-260
    ownerPc,        \* position of getRepoInfo
    payload,        \* the payload getRepoInfo received and is switching on
    result,         \* getRepoInfo's result map
    closed,         \* the data channel has been closed
    doneCount,      \* number of values received from the done channel
    panicked,       \* "none", or the panic that ended the process
    exited,         \* main has returned: the process is gone
    anHist,         \* History analysis on its own: the history list analysed
    anOut           \* History analysis on its own: its outcome

vars == <<catalog, registry, wgCounter, wgWaiters, reposPc, reposFailed, tagsPc, tagsFailed,
          detailPc, detailCreated, detailFailed, watcherPc, ownerPc, payload, result,
          closed, doneCount, panicked, exited, anHist, anOut>>

envVars == <<catalog, registry>>
anVars == <<anHist, anOut>>

Pending == [kind |-> "pending", created |-> 0]

\* *PayLoad (lines 45-50); Names and Created are the two uses of Target
NoPayload == [Type |-> "none", Repo |-> 0, Tag |-> 0, Names |-> {}, Created |-> 0]
RepoListPayload(repos) == [Type |-> "rs", Repo |-> 0, Tag |-> 0, Names |-> repos, Created |-> 0]
TagListPayload(repo, tags) == [Type |-> "ts", Repo |-> repo, Tag |-> 0, Names |-> tags, Created |-> 0]
TagDetailPayload(repo, tag, created) ==
    [Type |-> "td", Repo |-> repo, Tag |-> tag, Names |-> {}, Created |-> created]

\* ---------------------------------------------------------------------------
\* sort.Slice on fewer than 12 elements is an insertion sort:
\*   for i := a+1; i < b; i++ { for j := i; j > a && less(j, j-1); j-- { swap(j, j-1) } }
\* ---------------------------------------------------------------------------
Swap(s, i, j) == [s EXCEPT ![i] = s[j], ![j] = s[i]]

\* h[i].Before(h[j])
TimeLess(a, b) == a < b

RECURSIVE SinkTime(_, _)
SinkTime(s, j) ==
    IF j > 1 /\ TimeLess(s[j], s[j - 1]) THEN SinkTime(Swap(s, j, j - 1), j - 1) ELSE s

RECURSIVE SortTimesFrom(_, _)
SortTimesFrom(s, i) ==
    IF i > Len(s) THEN s ELSE SortTimesFrom(SinkTime(s, i), i + 1)

SortTimes(h) == SortTimesFrom(h, 2)

TagLessAscending(a, b) == a.Created < b.Created

\* tags[i].Created.After(tags[j].Created)
TagLess(a, b) == a.Created > b.Created

RECURSIVE SinkTag(_, _)
SinkTag(s, j) ==
    IF j > 1 /\ TagLess(s[j], s[j - 1]) THEN SinkTag(Swap(s, j, j - 1), j - 1) ELSE s

RECURSIVE SortTagsFrom(_, _)
SortTagsFrom(s, i) ==
    IF i > Len(s) THEN s ELSE SortTagsFrom(SinkTag(s, i), i + 1)

SortTags(tags) == SortTagsFrom(tags, 2)

\* ---------------------------------------------------------------------------
\* The history analysis of fetchDetailOfTag (lines 219-238)
\* ---------------------------------------------------------------------------
\* time.Parse(time.RFC3339Nano, msg["created"]) with its error dropped
ParseCreated(e) == IF e.v1 = "ok" THEN e.created ELSE 0

\* The loop of lines 220-232: the list h, or "abort" at the first entry whose
\* v1Compatibility does not unmarshal (log and return).
RECURSIVE CollectFrom(_, _, _)
CollectFrom(hist, i, h) ==
    IF i > Len(hist) THEN [kind |-> "list", h |-> h]
    ELSE IF hist[i].v1 = "badjson" THEN [kind |-> "abort", h |-> h]
    ELSE CollectFrom(hist, i + 1, Append(h, ParseCreated(hist[i])))

\* Outcome of the analysis of one manifest: "detail" with r["created"],
\* "abort" (return without a message), or "panic" (h[len(h)-1] on an empty h).
Analyze(hist) ==
    LET c == CollectFrom(hist, 1, <<>>)
    IN  IF c.kind = "abort" THEN [kind |-> "abort", created |-> 0]
        ELSE IF Len(c.h) = 0 THEN [kind |-> "panic", created |-> 0]
        ELSE [kind |-> "detail", created |-> SortTimes(c.h)[Len(c.h)]]

\* What the analysis can produce over all manifests within the bounds
AnalyzeOutcomes == {Analyze(hist) : hist \in Histories}

\* ---------------------------------------------------------------------------
\* sync.WaitGroup
\* ---------------------------------------------------------------------------
\* wg.Add(delta); wg.Done() is wg.Add(-1).  The counter is updated first; a
\* negative counter panics; reaching zero with a sleeping waiter releases it
\* and resets the waiter count.
WgAdd(delta) ==
    LET v == wgCounter + delta
    IN  [counter |-> v,
         panic   |-> v < 0,
         wake    |-> v = 0 /\ wgWaiters > 0,
         waiters |-> IF v = 0 THEN 0 ELSE wgWaiters]

WgStep(delta) ==
    LET w == WgAdd(delta)
    IN  /\ wgCounter' = w.counter
        /\ wgWaiters' = w.waiters
        /\ panicked' = IF w.panic THEN "sync: negative WaitGroup counter" ELSE panicked
        /\ watcherPc' = IF w.wake /\ ~w.panic THEN "woken" ELSE watcherPc

Running == panicked = "none" /\ ~exited


\* ---------------------------------------------------------------------------
\* Initial state: getRepoInfo after lines 249-260 (wg.Add(1), go fetchRepos,
\* go watcher), about to enter its loop, against some registry content.
\* ---------------------------------------------------------------------------
RECURSIVE CountImages(_, _)
CountImages(reg, rs) ==
    IF rs = {} THEN 0
    ELSE LET r == CHOOSE x \in rs : TRUE
         IN  Cardinality(reg[r]) + CountImages(reg, rs \ {r})

\* Registry contents up to renaming: the catalog lists the first k repository
\* names and a repository's tag list holds its first n tag names.
Catalogs == {1..k : k \in 0..MaxTasks}

Registries == {[r \in RepoNames |-> 1..cnt[r]] : cnt \in [RepoNames -> 0..MaxTasks]}

PipelineInit ==
    /\ wgCounter = 1
    /\ wgWaiters = 0
    /\ reposPc = "fetch"
    /\ reposFailed = FALSE
    /\ tagsPc = [r \in RepoNames |-> "idle"]
    /\ tagsFailed = {}
    /\ detailPc = [i \in Images |-> "idle"]
    /\ detailCreated = [i \in Images |-> 0]
    /\ detailFailed = {}
    /\ watcherPc = "wait"
    /\ ownerPc = "loop"
    /\ payload = NoPayload
    /\ result = <<>>
    /\ closed = FALSE
    /\ doneCount = 0
    /\ panicked = "none"
    /\ exited = FALSE

Init ==
    /\ catalog \in Catalogs
    /\ registry \in Registries
    /\ \A r \in RepoNames \ catalog : registry[r] = {}
    /\ Cardinality(catalog) + CountImages(registry, RepoNames) <= MaxTasks
    /\ PipelineInit
    /\ anHist = <<>>
    /\ anOut = Pending

\* ---------------------------------------------------------------------------
\* fetchRepos (lines 179-192)
\* ---------------------------------------------------------------------------
\* getForMap returns: an error (log, return) or the catalog document
FetchReposFetch ==
    /\ Running
    /\ reposPc = "fetch"
    /\ \/ reposPc' = "done" /\ reposFailed' = TRUE
       \/ reposPc' = "send" /\ UNCHANGED reposFailed
    /\ UNCHANGED <<envVars, anVars, wgCounter, wgWaiters, tagsPc, tagsFailed, detailPc,
                   detailCreated, detailFailed, watcherPc, ownerPc, payload, result, closed,
                   doneCount, panicked, exited>>

\* The repositories getRepoInfo starts a fetchTags goroutine for (lines 268-270)
LaunchedRepos(target) == target

\* data <- RepoList (line 187) meets the owner's <-data (line 265): the
\* owner holds the payload, the sender goes on to its wg.Add.
DeliverRepoList ==
    /\ Running
    /\ ownerPc = "loop"
    /\ ~closed
    /\ reposPc = "send"
    /\ reposPc' = "add"
    /\ ownerPc' = "handle"
    /\ payload' = RepoListPayload(catalog)
    /\ UNCHANGED <<envVars, anVars, wgCounter, wgWaiters, reposFailed, tagsPc, tagsFailed,
                   detailPc, detailCreated, detailFailed, watcherPc, result, closed,
                   doneCount, panicked, exited>>

\* The owner's "rs" case (lines 267-271): one go fetchTags per name
HandleRepoList ==
    /\ Running
    /\ ownerPc = "handle"
    /\ payload.Type = "rs"
    /\ tagsPc' = [r \in RepoNames |->
                    IF r \in LaunchedRepos(payload.Names) THEN "fetch" ELSE tagsPc[r]]
    /\ ownerPc' = "loop"
    /\ payload' = NoPayload
    /\ UNCHANGED <<envVars, anVars, wgCounter, wgWaiters, reposPc, reposFailed, tagsFailed,
                   detailPc, detailCreated, detailFailed, watcherPc, result, closed,
                   doneCount, panicked, exited>>

ChildUnitsNone(names) == 0

ChildUnitsOneTooMany(names) == Cardinality(names) + 1

\* len(repos) / len(tags): the units a sender registers for the names it announced
ChildUnits(names) == Cardinality(names)

\* wg.Add(len(repos)), line 191
FetchReposAdd ==
    /\ Running
    /\ reposPc = "add"
    /\ reposPc' = "done"
    /\ WgStep(ChildUnits(catalog))
    /\ UNCHANGED <<envVars, anVars, tagsPc, reposFailed, tagsFailed, detailPc, detailCreated,
                   detailFailed, ownerPc, payload, result, closed, doneCount, exited>>

\* the deferred wg.Done(), line 180
FetchReposDone ==
    /\ Running
    /\ reposPc = "done"
    /\ reposPc' = "ret"
    /\ WgStep(-1)
    /\ UNCHANGED <<envVars, anVars, tagsPc, reposFailed, tagsFailed, detailPc, detailCreated,
                   detailFailed, ownerPc, payload, result, closed, doneCount, exited>>

\* ---------------------------------------------------------------------------
\* fetchTags (lines 194-208)
\* ---------------------------------------------------------------------------
FetchTagsFetch(r) ==
    /\ Running
    /\ tagsPc[r] = "fetch"
    /\ \/ /\ tagsPc' = [tagsPc EXCEPT ![r] = "done"]
          /\ tagsFailed' = tagsFailed \cup {r}
       \/ /\ tagsPc' = [tagsPc EXCEPT ![r] = "send"]
          /\ UNCHANGED tagsFailed
    /\ UNCHANGED <<envVars, anVars, wgCounter, wgWaiters, reposPc, reposFailed, detailPc,
                   detailCreated, detailFailed, watcherPc, ownerPc, payload, result, closed,
                   doneCount, panicked, exited>>

\* data <- TagList (line 202) meets the owner's <-data
DeliverTagList(r) ==
    /\ Running
    /\ ownerPc = "loop"
    /\ ~closed
    /\ tagsPc[r] = "send"
    /\ tagsPc' = [tagsPc EXCEPT ![r] = "add"]
    /\ ownerPc' = "handle"
    /\ payload' = TagListPayload(r, registry[r])
    /\ UNCHANGED <<envVars, anVars, wgCounter, wgWaiters, reposPc, reposFailed, tagsFailed,
                   detailPc, detailCreated, detailFailed, watcherPc, result, closed,
                   doneCount, panicked, exited>>

\* The owner's "ts" case (lines 272-276): one go fetchDetailOfTag per tag
HandleTagList ==
    /\ Running
    /\ ownerPc = "handle"
    /\ payload.Type = "ts"
    /\ detailPc' = [i \in Images |->
                      IF i[1] = payload.Repo /\ i[2] \in payload.Names
                         THEN "fetch" ELSE detailPc[i]]
    /\ ownerPc' = "loop"
    /\ payload' = NoPayload
    /\ UNCHANGED <<envVars, anVars, wgCounter, wgWaiters, reposPc, reposFailed, tagsPc,
                   tagsFailed, detailCreated, detailFailed, watcherPc, result, closed,
                   doneCount, panicked, exited>>

\* wg.Add(len(tags)), line 207
FetchTagsAdd(r) ==
    /\ Running
    /\ tagsPc[r] = "add"
    /\ tagsPc' = [tagsPc EXCEPT ![r] = "done"]
    /\ WgStep(ChildUnits(registry[r]))
    /\ UNCHANGED <<envVars, anVars, reposPc, reposFailed, tagsFailed, detailPc, detailCreated,
                   detailFailed, ownerPc, payload, result, closed, doneCount, exited>>

\* the deferred wg.Done(), line 195
FetchTagsDone(r) ==
    /\ Running
    /\ tagsPc[r] = "done"
    /\ tagsPc' = [tagsPc EXCEPT ![r] = "ret"]
    /\ WgStep(-1)
    /\ UNCHANGED <<envVars, anVars, reposPc, reposFailed, tagsFailed, detailPc, detailCreated,
                   detailFailed, ownerPc, payload, result, closed, doneCount, exited>>

\* ---------------------------------------------------------------------------
\* fetchDetailOfTag (lines 210-246)
\* ---------------------------------------------------------------------------
\* getForMap fails (lines 213-216)
FetchDetailError(i) ==
    /\ Running
    /\ detailPc[i] = "fetch"
    /\ detailPc' = [detailPc EXCEPT ![i] = "done"]
    /\ detailFailed' = detailFailed \cup {i}
    /\ UNCHANGED <<envVars, anVars, wgCounter, wgWaiters, reposPc, tagsPc, reposFailed, tagsFailed,
                   detailCreated, watcherPc, ownerPc, payload, result, closed, doneCount,
                   panicked, exited>>

\* getForMap returns some manifest and lines 219-238 analyse its history
FetchDetailAnalyze(i) ==
    /\ Running
    /\ detailPc[i] = "fetch"
    /\ \E o \in AnalyzeOutcomes :
          \/ /\ o.kind = "detail"
             /\ detailPc' = [detailPc EXCEPT ![i] = "send"]
             /\ detailCreated' = [detailCreated EXCEPT ![i] = o.created]
             /\ UNCHANGED <<detailFailed, panicked>>
          \/ /\ o.kind = "abort"
             /\ detailPc' = [detailPc EXCEPT ![i] = "done"]
             /\ detailFailed' = detailFailed \cup {i}
             /\ UNCHANGED <<detailCreated, panicked>>
          \/ /\ o.kind = "panic"
             /\ panicked' = "index out of range"
             /\ UNCHANGED <<detailPc, detailCreated, detailFailed>>
    /\ UNCHANGED <<envVars, anVars, wgCounter, wgWaiters, reposPc, tagsPc, reposFailed, tagsFailed,
                   watcherPc, ownerPc, payload, result, closed, doneCount, exited>>

\* The key of the result map a TagDetail payload is stored under (line 283)
ResultKeySwapped(repo, tag) == tag

ResultKey(repo, tag) == repo

InsertDiscarded(res, k, td) == res

InsertOverwriting(res, k, td) == [x \in DOMAIN res \cup {k} |-> IF x = k THEN <<td>> ELSE res[x]]

InsertCreateOnly(res, k, td) ==
    [x \in DOMAIN res \cup {k} |->
        IF x = k THEN (IF k \in DOMAIN res THEN Append(res[k], td) ELSE <<>>) ELSE res[x]]

\* result[k] = append(result[k], td), creating the slice if absent (lines 279-286)
Insert(res, k, td) ==
    [x \in DOMAIN res \cup {k} |->
        IF x = k THEN Append(IF k \in DOMAIN res THEN res[k] ELSE <<>>, td) ELSE res[x]]

\* data <- TagDetail (line 240) meets the owner's <-data
DeliverTagDetail(i) ==
    /\ Running
    /\ ownerPc = "loop"
    /\ ~closed
    /\ detailPc[i] = "send"
    /\ detailPc' = [detailPc EXCEPT ![i] = "done"]
    /\ ownerPc' = "handle"
    /\ payload' = TagDetailPayload(i[1], i[2], detailCreated[i])
    /\ UNCHANGED <<envVars, anVars, wgCounter, wgWaiters, reposPc, reposFailed, tagsPc,
                   tagsFailed, detailCreated, detailFailed, watcherPc, result, closed,
                   doneCount, panicked, exited>>

\* The owner's "td" case (lines 277-287)
HandleTagDetail ==
    /\ Running
    /\ ownerPc = "handle"
    /\ payload.Type = "td"
    /\ result' = Insert(result, ResultKey(payload.Repo, payload.Tag),
                        [Tag |-> payload.Tag, Created |-> payload.Created])
    /\ ownerPc' = "loop"
    /\ payload' = NoPayload
    /\ UNCHANGED <<envVars, anVars, wgCounter, wgWaiters, reposPc, reposFailed, tagsPc,
                   tagsFailed, detailPc, detailCreated, detailFailed, watcherPc, closed,
                   doneCount, panicked, exited>>

\* the deferred wg.Done(), line 211
FetchDetailDone(i) ==
    /\ Running
    /\ detailPc[i] = "done"
    /\ detailPc' = [detailPc EXCEPT ![i] = "ret"]
    /\ WgStep(-1)
    /\ UNCHANGED <<envVars, anVars, reposPc, tagsPc, reposFailed, tagsFailed, detailCreated,
                   detailFailed, ownerPc, payload, result, closed, doneCount, exited>>


\* ---------------------------------------------------------------------------
\* The watcher goroutine (lines 257-260): wg.Wait(); done <- struct{}{}
\* ---------------------------------------------------------------------------
\* wg.Wait(): returns at once on a zero counter, else registers as a waiter and sleeps
WatcherWait ==
    /\ Running
    /\ watcherPc = "wait"
    /\ IF wgCounter = 0
          THEN watcherPc' = "senddone" /\ UNCHANGED wgWaiters
          ELSE watcherPc' = "sleeping" /\ wgWaiters' = wgWaiters + 1
    /\ UNCHANGED <<envVars, anVars, wgCounter, reposPc, tagsPc, reposFailed, tagsFailed, detailPc,
                   detailCreated, detailFailed, ownerPc, payload, result, closed, doneCount,
                   panicked, exited>>

\* The released waiter resumes inside Wait: a WaitGroup whose state is no
\* longer zero panics ("WaitGroup is reused before previous Wait has returned")
WatcherResume ==
    /\ Running
    /\ watcherPc = "woken"
    /\ IF wgCounter # 0 \/ wgWaiters # 0
          THEN panicked' = "sync: WaitGroup is reused" /\ UNCHANGED watcherPc
          ELSE watcherPc' = "senddone" /\ UNCHANGED panicked
    /\ UNCHANGED <<envVars, anVars, wgCounter, wgWaiters, reposPc, tagsPc, reposFailed, tagsFailed,
                   detailPc, detailCreated, detailFailed, ownerPc, payload, result, closed,
                   doneCount, exited>>

\* ---------------------------------------------------------------------------
\* getRepoInfo, case <-done (lines 290-297): close(data), sort every
\* repository's slice in place, return result.
\* ---------------------------------------------------------------------------
OwnerDone ==
    /\ Running
    /\ ownerPc = "loop"
    /\ watcherPc = "senddone"
    /\ watcherPc' = "exit"
    /\ doneCount' = doneCount + 1
    /\ closed' = TRUE
    /\ result' = [k \in DOMAIN result |-> SortTags(result[k])]
    /\ ownerPc' = "returned"
    /\ UNCHANGED payload
    /\ UNCHANGED <<envVars, anVars, wgCounter, wgWaiters, reposPc, tagsPc, reposFailed, tagsFailed,
                   detailPc, detailCreated, detailFailed, panicked, exited>>

\* A goroutine at its data <- send once the channel is closed: panic
SendOnClosed ==
    /\ Running
    /\ closed
    /\ \/ reposPc = "send"
       \/ \E r \in RepoNames : tagsPc[r] = "send"
       \/ \E i \in Images : detailPc[i] = "send"
    /\ panicked' = "send on closed channel"
    /\ UNCHANGED <<envVars, anVars, wgCounter, wgWaiters, reposPc, tagsPc, reposFailed, tagsFailed,
                   detailPc, detailCreated, detailFailed, watcherPc, ownerPc, payload, result,
                   closed, doneCount, exited>>

\* main (lines 314-316): prints the result and returns; the process and every
\* goroutine still alive end.
MainExit ==
    /\ Running
    /\ ownerPc = "returned"
    /\ exited' = TRUE
    /\ UNCHANGED <<envVars, anVars, wgCounter, wgWaiters, reposPc, tagsPc, reposFailed, tagsFailed,
                   detailPc, detailCreated, detailFailed, watcherPc, ownerPc, payload, result,
                   closed, doneCount, panicked>>

Next ==
    \/ FetchReposFetch
    \/ DeliverRepoList
    \/ HandleRepoList
    \/ HandleTagList
    \/ HandleTagDetail
    \/ FetchReposAdd
    \/ FetchReposDone
    \/ \E r \in RepoNames : FetchTagsFetch(r)
    \/ \E r \in RepoNames : DeliverTagList(r)
    \/ \E r \in RepoNames : FetchTagsAdd(r)
    \/ \E r \in RepoNames : FetchTagsDone(r)
    \/ \E i \in Images : FetchDetailError(i)
    \/ \E i \in Images : FetchDetailAnalyze(i)
    \/ \E i \in Images : DeliverTagDetail(i)
    \/ \E i \in Images : FetchDetailDone(i)
    \/ WatcherWait
    \/ WatcherResume
    \/ OwnerDone
    \/ SendOnClosed
    \/ MainExit

Spec == Init /\ [][Next]_vars

\* The runs in which every fetch returns: the Go scheduler runs every runnable
\* goroutine eventually, so no enabled step is postponed forever.
FairSpec == Spec /\ WF_vars(Next)

\* ---------------------------------------------------------------------------
\* The history analysis on its own, over every history list within the bounds
\* ---------------------------------------------------------------------------
AnInit ==
    /\ anHist \in Histories
    /\ anOut = Pending
    /\ catalog = {}
    /\ registry = [r \in RepoNames |-> {}]
    /\ PipelineInit

AnApply ==
    /\ anOut.kind = "pending"
    /\ anOut' = Analyze(anHist)
    /\ UNCHANGED <<anHist, envVars, wgCounter, wgWaiters, reposPc, tagsPc, reposFailed, tagsFailed,
                   detailPc, detailCreated, detailFailed, watcherPc, ownerPc, payload, result,
                   closed, doneCount, panicked, exited>>

AnNext == AnApply

AnalyzerSpec == AnInit /\ [][AnNext]_vars

\* ---------------------------------------------------------------------------
\* Type invariant
\* ---------------------------------------------------------------------------
TypeOK ==
    /\ catalog \subseteq RepoNames
    /\ registry \in [RepoNames -> SUBSET TagNames]
    /\ wgCounter \in Int
    /\ wgWaiters \in 0..1
    /\ reposPc \in {"fetch", "send", "add", "done", "ret"}
    /\ reposFailed \in BOOLEAN
    /\ tagsPc \in [RepoNames -> {"idle", "fetch", "send", "add", "done", "ret"}]
    /\ detailPc \in [Images -> {"idle", "fetch", "send", "done", "ret"}]
    /\ detailCreated \in [Images -> 0..MaxTime]
    /\ watcherPc \in {"wait", "sleeping", "woken", "senddone", "exit"}
    /\ ownerPc \in {"loop", "handle", "returned"}
    /\ payload.Type \in {"none", "rs", "ts", "td"}
    /\ closed \in BOOLEAN
    /\ exited \in BOOLEAN


\* ===========================================================================
\* Properties
\* ===========================================================================
\* A goroutine that has been started and has not yet run its deferred wg.Done()
ReposRunning == reposPc # "ret"
TagsRunning(r) == tagsPc[r] \notin {"idle", "ret"}
DetailRunning(i) == detailPc[i] \notin {"idle", "ret"}
TasksRemaining ==
    \/ ReposRunning
    \/ \E r \in RepoNames : TagsRunning(r)
    \/ \E i \in Images : DetailRunning(i)

\* fetchDetailOfTag i fetched and analysed its manifest: its TagDetail exists
Produced(i) == detailPc[i] \in {"send", "done", "ret"} /\ i \notin detailFailed

\* The entries of the result map for image i (repository i[1], tag i[2])
Entries(i) ==
    IF i[1] \in DOMAIN result
       THEN {n \in 1..Len(result[i[1]]) : result[i[1]][n].Tag = i[2]}
       ELSE {}

Returned == ownerPc = "returned"

AnyFailed == reposFailed \/ tagsFailed # {} \/ detailFailed # {}

\* C1: the WaitGroup counter is zero only when no started goroutine is left
\* that has not yet retired its unit.
C1_CounterZeroOnlyWhenNoTaskRemains == wgCounter = 0 => ~TasksRemaining

\* C2: in every fair run the done event is received exactly once and
\* getRepoInfo returns.
C2_CompletionFiresOnce == <>(Returned /\ doneCount = 1)

\* C3: when getRepoInfo returns, the result holds exactly one entry, with the
\* computed Created, for every image whose TagDetail was produced, and no
\* other entry.
C3_ResultCompleteAtReturn ==
    Returned =>
        \A i \in Images :
            IF Produced(i)
               THEN /\ Cardinality(Entries(i)) = 1
                    /\ \A n \in Entries(i) : result[i[1]][n].Created = detailCreated[i]
               ELSE Entries(i) = {}

\* C4: every key of the result map is a repository of the catalog answer.
C4_KeysInCatalog == DOMAIN result \subseteq catalog

C4_Witness == DOMAIN result # {} /\ catalog # RepoNames /\ Returned

\* C5: in the returned result every repository's Created values are
\* non-increasing from first to last.
C5_SortedDescending ==
    Returned =>
        \A k \in DOMAIN result :
            \A n \in 1..(Len(result[k]) - 1) :
                result[k][n].Created >= result[k][n + 1].Created

C5_Witness ==
    /\ Returned
    /\ \E k \in DOMAIN result :
          /\ Len(result[k]) >= 2
          /\ result[k][1].Created > result[k][Len(result[k])].Created

\* C6: in the returned result entries of one repository with equal Created
\* are in ascending tag name order.
C6_TiesByTagName ==
    Returned =>
        \A k \in DOMAIN result :
            \A n, m \in 1..Len(result[k]) :
                (n < m /\ result[k][n].Created = result[k][m].Created)
                    => result[k][n].Tag < result[k][m].Tag

\* The timestamps of the entries of a history list that parse
ParsedTimes(hist) == {hist[n].created : n \in {x \in 1..Len(hist) : hist[x].v1 = "ok"}}

MaxOf(S) == CHOOSE x \in S : \A y \in S : y <= x

\* C7: when at least one history entry parses, a TagDetail is produced and its
\* Created is the maximum of the timestamps of the entries that parse.
C7_MaxOfParsed ==
    (anOut.kind # "pending" /\ ParsedTimes(anHist) # {})
        => (anOut.kind = "detail" /\ anOut.created = MaxOf(ParsedTimes(anHist)))

\* C8: an empty history list, or one none of whose entries parses, yields the
\* "unavailable" marker: no crash and no timestamp.
C8_UnavailableWhenNothingParses ==
    (anOut.kind # "pending" /\ ParsedTimes(anHist) = {}) => anOut.kind = "unavailable"

\* C9: whatever goroutines failed, getRepoInfo returns with the entry of every
\* goroutine that produced a TagDetail.
C9_FailuresDoNotLoseEntries ==
    (Returned /\ AnyFailed) => \A i \in Images : Produced(i) => Entries(i) # {}

\* C10: a child goroutine is started only once the units of its whole
\* generation are registered: fetchTags after fetchRepos' wg.Add(len(repos)),
\* fetchDetailOfTag after its fetchTags' wg.Add(len(tags)).
C10_RegisteredBeforeLaunch ==
    /\ \A r \in RepoNames : tagsPc[r] # "idle" => reposPc \in {"done", "ret"}
    /\ \A i \in Images : detailPc[i] # "idle" => tagsPc[i[1]] \in {"done", "ret"}


\* C11: a goroutine that announced N children (fetchRepos, fetchTags) reaches
\* its own wg.Done only through its wg.Add, which raises the counter by N; the
\* only other way to the wg.Done is the error return, which sent nothing.
C11_RegistersBeforeRetiring ==
    [][/\ (reposPc' = "done" /\ reposPc # "done") =>
             \/ reposPc = "fetch" /\ reposFailed'
             \/ reposPc = "add" /\ wgCounter' = wgCounter + Cardinality(catalog)
       /\ \A r \in RepoNames :
             (tagsPc'[r] = "done" /\ tagsPc[r] # "done") =>
                 \/ tagsPc[r] = "fetch" /\ r \in tagsFailed'
                 \/ tagsPc[r] = "add" /\ wgCounter' = wgCounter + Cardinality(registry[r])
       /\ (reposPc = "send" /\ reposPc' # "send") => reposPc' = "add"
       /\ \A r \in RepoNames : (tagsPc[r] = "send" /\ tagsPc'[r] # "send") => tagsPc'[r] = "add"
      ]_vars

C11_Witness ==
    /\ reposPc = "ret" /\ ~reposFailed /\ catalog # {}
    /\ \E r \in RepoNames : tagsPc[r] = "ret" /\ r \notin tagsFailed /\ registry[r] # {}


\* The owner holds the TagDetail payload of image i and has not yet stored it
InHand(i) ==
    ownerPc = "handle" /\ payload.Type = "td" /\ payload.Repo = i[1] /\ payload.Tag = i[2]

\* fetchDetailOfTag i sent its TagDetail and has run its deferred wg.Done
Retired(i) == detailPc[i] = "ret" /\ i \notin detailFailed

\* C12 as stated: the unit of a tag whose detail was emitted is retired only
\* once the detail is in the result map.
C12_InsertedBeforeRetired == \A i \in Images : Retired(i) => Entries(i) # {}

\* C12 as amended: the unit of a tag whose detail was emitted is retired only
\* once the owner has received the detail, and the owner stores it before it
\* selects again.
C12_ReceivedBeforeRetired ==
    \A i \in Images :
        /\ Retired(i) => (Entries(i) # {} \/ InHand(i))
        /\ (Produced(i) /\ detailPc[i] \in {"done", "ret"} /\ ownerPc # "handle")
               => Entries(i) # {}

C12_Witness == \E i \in Images : Retired(i) /\ InHand(i) /\ Entries(i) = {}


\* This step is the owner's "td" case appending exactly the payload's entry to
\* the sequence of the payload's repository, every other sequence unchanged
AppendsHeldDetail ==
    /\ ownerPc = "handle" /\ payload.Type = "td"
    /\ DOMAIN result' = DOMAIN result \cup {payload.Repo}
    /\ result'[payload.Repo] =
          Append(IF payload.Repo \in DOMAIN result THEN result[payload.Repo] ELSE <<>>,
                 [Tag |-> payload.Tag, Created |-> payload.Created])
    /\ \A x \in DOMAIN result \ {payload.Repo} : result'[x] = result[x]

Occurrences(seq, x) == Cardinality({n \in 1..Len(seq) : seq[n] = x})

\* This step is the owner's <-done case reordering the sequences: same keys,
\* and every sequence keeps its entries
ReordersOnDone ==
    /\ ownerPc = "loop" /\ ownerPc' = "returned"
    /\ DOMAIN result' = DOMAIN result
    /\ \A k \in DOMAIN result :
          /\ Len(result'[k]) = Len(result[k])
          /\ \A n \in 1..Len(result[k]) :
                Occurrences(result'[k], result[k][n]) = Occurrences(result[k], result[k][n])

\* C13 as stated: the result map changes only by the owner's "td" case
\* appending one entry to the sequence of the message's repository.
C13_OnlyTagDetailChangesResult == [][result' # result => AppendsHeldDetail]_vars

\* C13 as amended: the result map changes only by the owner: its "td" case
\* appends one entry, its <-done case reorders the sequences in place.
C13_OnlyOwnerChangesResult ==
    [][result' # result => (AppendsHeldDetail \/ ReordersOnDone)]_vars

C13_Witness ==
    /\ ownerPc = "loop"
    /\ \E k \in DOMAIN result : Len(result[k]) >= 2


\* Some started goroutine is inside getForMap, which has not returned.  A
\* fetch that never returns is a goroutine that stays there for ever.
FetchPending ==
    \/ reposPc = "fetch"
    \/ \E r \in RepoNames : tagsPc[r] = "fetch"
    \/ \E i \in Images : detailPc[i] = "fetch"

\* C14: as long as the fetch of a started goroutine has not returned, the
\* done event is not signalled and getRepoInfo does not return.
C14_NoDoneWhileFetchPending ==
    FetchPending => (watcherPc \notin {"senddone", "exit"} /\ ~Returned)

\* C15: the WaitGroup counter is never negative.
C15_CounterNeverNegative == wgCounter >= 0

\* C16: once the data channel is closed no goroutine is at a send on it, and
\* none panics sending on it.
C16_NoSenderAfterClose ==
    /\ closed => /\ reposPc # "send"
                 /\ \A r \in RepoNames : tagsPc[r] # "send"
                 /\ \A i \in Images : detailPc[i] # "send"
    /\ panicked # "send on closed channel"

\* Units registered so far: wg.Add(1) of getRepoInfo and the wg.Add(len(...))
\* of every sender that has run it
Registered ==
    1 + (IF reposPc \in {"done", "ret"} /\ ~reposFailed THEN Cardinality(catalog) ELSE 0)
      + Cardinality({i \in Images : /\ tagsPc[i[1]] \in {"done", "ret"}
                                    /\ i[1] \notin tagsFailed
                                    /\ i[2] \in registry[i[1]]})

\* Units retired so far: one per goroutine that has run its deferred wg.Done
RetiredUnits ==
    (IF reposPc = "ret" THEN 1 ELSE 0)
      + Cardinality({r \in RepoNames : tagsPc[r] = "ret"})
      + Cardinality({i \in Images : detailPc[i] = "ret"})

\* Goroutines started so far
Launched ==
    1 + Cardinality({r \in RepoNames : tagsPc[r] # "idle"})
      + Cardinality({i \in Images : detailPc[i] # "idle"})

\* Every started goroutine has returned and the owner holds no list whose
\* children are still to be started
Quiescent == ~TasksRemaining /\ ownerPc # "handle"

\* C17: the counter is the units registered minus the units retired; once
\* every started goroutine has returned, as many units were registered as
\* goroutines were started and the counter is zero.
C17_UnitsBalance ==
    /\ wgCounter = Registered - RetiredUnits
    /\ Quiescent => (Registered = Launched /\ wgCounter = 0)

C17_Witness == Quiescent /\ Launched >= 3 /\ panicked = "none"

\* The owner has stored the TagDetail of image i
Processed(i) == Produced(i) /\ detailPc[i] \in {"done", "ret"} /\ ~InHand(i)

\* C18: the result map holds no empty sequence, and a repository is a key iff
\* a TagDetail of it has been stored.
C18_NoEmptySequence ==
    /\ \A k \in DOMAIN result : Len(result[k]) >= 1
    /\ \A k \in RepoNames :
          k \in DOMAIN result <=> \E i \in Images : i[1] = k /\ Processed(i)

C18_Witness ==
    /\ Returned
    /\ DOMAIN result # {}
    /\ \E k \in catalog : k \notin DOMAIN result /\ registry[k] = {} /\ tagsPc[k] = "ret"

====
